---------------------------- MODULE Spec2Model ----------------------------
(***************************************************************************)
(* Model of templates/python/text_transform/main.py: a one-shot skill that *)
(* reads one JSON document from standard input, applies a named string     *)
(* transform and writes one JSON result to standard output.                *)
(*                                                                         *)
(* A Python str is a sequence of code points.  A code point is written as  *)
(* a one-character TLA+ string when it is ASCII and as "U+XXXX" otherwise. *)
(* The text on stdin and stdout is a sequence of JSON tokens; a string     *)
(* token keeps its content as written (literal characters and \uXXXX       *)
(* escapes), so that decoding and encoding are real conversions.           *)
(***************************************************************************)
EXTENDS Integers, Sequences, FiniteSets

(***************************************************************************)
(* Bounds of the model.                                                    *)
(***************************************************************************)
\* Longest text (in units as written on stdin) the inputs enumerate.
MaxLen == 3
\* Containers json.loads may nest before the interpreter raises
\* RecursionError (a scaled-down stand-in for the interpreter's limit).
RecursionLimit == 2
\* Invocations a caller chains in SpecChain (output fed back as text).
MaxRounds == 2

\* int() refuses a literal of more digits (sys.int_info.default_max_str_digits).
MaxStrDigits == 4300

(***************************************************************************)
(* Code points and the str methods the registry uses.                      *)
(***************************************************************************)
\* text: ABCDEFGHIJKLMNOPQRSTUVWXYZ
UpperLetters == <<"A", "B", "C", "D", "E", "F", "G", "H", "I", "J", "K", "L",
    "M", "N", "O", "P", "Q", "R", "S", "T", "U", "V", "W", "X", "Y", "Z">>
\* text: abcdefghijklmnopqrstuvwxyz
LowerLetters == <<"a", "b", "c", "d", "e", "f", "g", "h", "i", "j", "k", "l",
    "m", "n", "o", "p", "q", "r", "s", "t", "u", "v", "w", "x", "y", "z">>

IndexIn(c, letters) ==
    IF \E i \in 1..Len(letters) : letters[i] = c
    THEN CHOOSE i \in 1..Len(letters) : letters[i] = c
    ELSE 0

HighSurrogate == "U+D83D"
LowSurrogate == "U+DE00"
Astral == "U+1F600"

\* Code points json.dumps (ensure_ascii) writes as they are.
IsAscii(c) ==
    c \notin {"U+00DF", "U+0130", "U+0307", "U+2014", HighSurrogate, LowSurrogate, Astral}

\* The full lower-case mapping of one code point (str.lower).
LowerOf(c) ==
    IF IndexIn(c, UpperLetters) > 0 THEN <<LowerLetters[IndexIn(c, UpperLetters)]>>
    ELSE IF c = "U+0130" THEN <<"i", "U+0307">>
    ELSE <<c>>

\* The full upper-case mapping of one code point (str.upper).
UpperOf(c) ==
    IF IndexIn(c, LowerLetters) > 0 THEN <<UpperLetters[IndexIn(c, LowerLetters)]>>
    ELSE IF c = "U+00DF" THEN <<"S", "S">>
    ELSE <<c>>

\* The full title-case mapping of one code point (str.title, word start).
TitleOf(c) ==
    IF IndexIn(c, LowerLetters) > 0 THEN <<UpperLetters[IndexIn(c, LowerLetters)]>>
    ELSE IF c = "U+00DF" THEN <<"S", "s">>
    ELSE <<c>>

IsCased(c) ==
    \/ IndexIn(c, LowerLetters) > 0
    \/ IndexIn(c, UpperLetters) > 0
    \/ c \in {"U+00DF", "U+0130"}

RECURSIVE MapCat(_, _, _)
\* Concatenation of the images of s[i..] under the per-code-point mapping.
MapCat(s, i, mode) ==
    IF i > Len(s) THEN <<>>
    ELSE (CASE mode = "lower" -> LowerOf(s[i])
            [] mode = "upper" -> UpperOf(s[i])) \o MapCat(s, i + 1, mode)

\* str.lower
Lower(s) == MapCat(s, 1, "lower")

\* str.upper
Upper(s) == MapCat(s, 1, "upper")

\* lambda s: s[::-1], on a str or a list
Reverse(s) == [i \in 1..Len(s) |-> s[Len(s) + 1 - i]]

RECURSIVE TitleFrom(_, _, _)
TitleFrom(s, i, previousIsCased) ==
    IF i > Len(s) THEN <<>>
    ELSE (IF previousIsCased THEN LowerOf(s[i]) ELSE TitleOf(s[i]))
         \o TitleFrom(s, i + 1, IsCased(s[i]))

\* str.title
Title(s) == TitleFrom(s, 1, FALSE)

RECURSIVE JoinFrom(_, _, _)
JoinFrom(parts, i, sep) ==
    IF i > Len(parts) THEN <<>>
    ELSE IF i = Len(parts) THEN parts[i]
    ELSE parts[i] \o sep \o JoinFrom(parts, i + 1, sep)

\* sep.join(parts)
Join(parts, sep) == JoinFrom(parts, 1, sep)

(***************************************************************************)
(* Python values: what json.loads builds and json.dumps writes.  The tag   *)
(* is the name of the value's Python type.                                 *)
(***************************************************************************)
PyStr(s) == [t |-> "str", s |-> s]
PyInt(d, n) == [t |-> "int", digit |-> d, ndigits |-> n]
PyFloat(f) == [t |-> "float", f |-> f]
PyBool(b) == [t |-> "bool", b |-> b]
PyNone == [t |-> "NoneType"]
PyList(xs) == [t |-> "list", items |-> xs]
\* A dict keeps its entries in insertion order: a sequence of <<key, value>>.
PyDict(ps) == [t |-> "dict", pairs |-> ps]

TypeName(v) ==
    CASE v.t = "str" -> <<"s", "t", "r">>
      [] v.t = "int" -> <<"i", "n", "t">>
      [] v.t = "float" -> <<"f", "l", "o", "a", "t">>
      [] v.t = "bool" -> <<"b", "o", "o", "l">>
      [] v.t = "NoneType" -> <<"N", "o", "n", "e", "T", "y", "p", "e">>
      [] v.t = "list" -> <<"l", "i", "s", "t">>
      [] v.t = "dict" -> <<"d", "i", "c", "t">>

HasKey(d, key) == \E i \in 1..Len(d.pairs) : d.pairs[i][1] = key

\* d.get(key, default)
DictGet(d, key, default) ==
    IF HasKey(d, key)
    THEN d.pairs[CHOOSE i \in 1..Len(d.pairs) : d.pairs[i][1] = key][2]
    ELSE default

\* d[key] = value: a present key keeps its place, a new key goes last.
DictSet(d, key, value) ==
    IF HasKey(d, key)
    THEN PyDict([i \in 1..Len(d.pairs) |->
                    IF d.pairs[i][1] = key THEN <<key, value>> ELSE d.pairs[i]])
    ELSE PyDict(Append(d.pairs, <<key, value>>))

(***************************************************************************)
(* The registry and run.                                                   *)
(***************************************************************************)
TRANSFORMS ==
    << <<<<"u", "p", "p", "e", "r", "c", "a", "s", "e">>, "str.upper">>,
       <<<<"l", "o", "w", "e", "r", "c", "a", "s", "e">>, "str.lower">>,
       <<<<"r", "e", "v", "e", "r", "s", "e">>, "lambda s: s[::-1]">>,
       <<<<"t", "i", "t", "l", "e">>, "str.title">> >>

\* TRANSFORMS.keys(), in registration order
TransformKeys == [i \in 1..Len(TRANSFORMS) |-> TRANSFORMS[i][1]]

\* transform in TRANSFORMS
InTransforms(name) == \E i \in 1..Len(TRANSFORMS) : TRANSFORMS[i][1] = name

\* A lookup that ignores the name and takes the first entry.
TransformFnFirst(name) == TRANSFORMS[1][2]

\* TRANSFORMS[transform]
TransformFn(name) ==
    TRANSFORMS[CHOOSE i \in 1..Len(TRANSFORMS) : TRANSFORMS[i][1] = name][2]

\* What a call does: it returns a value or raises an exception.
Return(v) == [kind |-> "return", val |-> v]
Raise(exc, msg) == [kind |-> "raise", exc |-> exc, msg |-> msg]

\* A str method called through the type on something that is not a str.
DescriptorError(method, v) ==
    Raise("TypeError",
          \* text: ' for 'str' objects doesn't apply to a '
          <<"d", "e", "s", "c", "r", "i", "p", "t", "o", "r", " ",
              "'">> \o method \o <<"'", " ", "f", "o", "r", " ", "'", "s",
              "t", "r", "'", " ", "o", "b", "j", "e", "c", "t", "s", " ", "d",
              "o", "e", "s", "n", "'", "t", " ", "a", "p", "p", "l", "y", " ",
              "t", "o", " ", "a", " ", "'">>
          \o TypeName(v) \o <<"'", " ", "o", "b", "j", "e", "c", "t">>)

\* A str method that takes whatever is not a str for the empty string.
StrMethodLenient(method, text) ==
    LET s == IF text.t = "str" THEN text.s ELSE <<>>
    IN  {Return(PyStr(CASE method = <<"u", "p", "p", "e", "r">> -> Upper(s)
                        [] method = <<"l", "o", "w", "e", "r">> -> Lower(s)
                        [] method = <<"t", "i", "t", "l", "e">> -> Title(s)))}

\* A str method of the registry called through the type, as str.upper(text).
StrMethod(method, text) ==
    IF text.t # "str" THEN {DescriptorError(method, text)}
    ELSE {Return(PyStr(CASE method = <<"u", "p", "p", "e",
        "r">> -> Upper(text.s)
                         [] method = <<"l", "o", "w", "e",
                             "r">> -> Lower(text.s)
                         [] method = <<"t", "i", "t", "l",
                             "e">> -> Title(text.s)))}

\* text[::-1]: a str and a list are sliced; a dict takes the slice as a
\* key (unhashable before Python 3.12, a missing key since); anything else
\* is not subscriptable.
Slice(text) ==
    CASE text.t = "str" -> {Return(PyStr(Reverse(text.s)))}
      [] text.t = "list" -> {Return(PyList(Reverse(text.items)))}
      [] text.t = "dict" ->
            \* text: unhashable type: 'slice'
            {Raise("TypeError", <<"u", "n", "h", "a", "s", "h", "a", "b", "l",
                "e", " ", "t", "y", "p", "e", ":", " ", "'", "s", "l", "i",
                "c", "e", "'">>),
             \* text: slice(None, None, -1)
             Raise("KeyError", <<"s", "l", "i", "c", "e", "(", "N", "o", "n",
                 "e", ",", " ", "N", "o", "n", "e", ",", " ", "-", "1",
                 ")">>)}
      [] OTHER ->
            \* text: ' object is not subscriptable
            {Raise("TypeError", <<"'">> \o TypeName(text) \o <<"'", " ", "o",
                "b", "j", "e", "c", "t", " ", "i", "s", " ", "n", "o", "t",
                " ", "s", "u", "b", "s", "c", "r", "i", "p", "t", "a", "b",
                "l", "e">>)}

\* TRANSFORMS[transform](text)
CallTransform(fn, text) ==
    CASE fn = "str.upper" -> StrMethod(<<"u", "p", "p", "e", "r">>, text)
      [] fn = "str.lower" -> StrMethod(<<"l", "o", "w", "e", "r">>, text)
      [] fn = "str.title" -> StrMethod(<<"t", "i", "t", "l", "e">>, text)
      [] fn = "lambda s: s[::-1]" -> Slice(text)

KeySuccess == <<"s", "u", "c", "c", "e", "s", "s">>
KeyOutput == <<"o", "u", "t", "p", "u", "t">>
KeyError == <<"e", "r", "r", "o", "r">>
KeyText == <<"t", "e", "x", "t">>
KeyTransform == <<"t", "r", "a", "n", "s", "f", "o", "r", "m">>

\* The dict literal {"success": ..., "output": ..., "error": ...}
ResultDict(success, output, error) ==
    PyDict(<< <<KeySuccess, PyBool(success)>>,
              <<KeyOutput, output>>,
              <<KeyError, error>> >>)

\* The message with the names sorted instead of in registration order.
UnknownTransformMessageSorted(transform) ==
    \* text: unknown transform '
    <<"u", "n", "k", "n", "o", "w", "n", " ", "t", "r", "a", "n", "s", "f",
        "o", "r", "m", " ", "'">> \o transform \o <<"'", " ", "U+2014", " ",
        "u", "s", "e", ":", " ">>
    \o Join(<<TransformKeys[2], TransformKeys[3], TransformKeys[4], TransformKeys[1]>>,
            <<",", " ">>)

\* The f-string of the unknown-transform result (its dash is U+2014).
UnknownTransformMessage(transform) ==
    \* text: unknown transform '
    <<"u", "n", "k", "n", "o", "w", "n", " ", "t", "r", "a", "n", "s", "f",
        "o", "r", "m", " ", "'">> \o transform \o <<"'", " ", "U+2014", " ",
        "u", "s", "e", ":", " ">>
    \o Join(TransformKeys, <<",", " ">>)

\* The lookup done on the name as given, the .lower() forgotten.
LowerMethodForgotten(v) ==
    IF v.t = "str" THEN Return(PyStr(v.s))
    ELSE Raise("AttributeError",
               \* text: ' object has no attribute 'lower'
               <<"'">> \o TypeName(v) \o <<"'", " ", "o", "b", "j", "e", "c",
                   "t", " ", "h", "a", "s", " ", "n", "o", " ", "a", "t", "t",
                   "r", "i", "b", "u", "t", "e", " ", "'", "l", "o", "w", "e",
                   "r", "'">>)

\* A value that is not a str taken for an omitted transform.
LowerMethodDefaulting(v) ==
    IF v.t = "str" THEN Return(PyStr(Lower(v.s))) ELSE Return(PyStr(<<>>))

\* value.lower() of run's second statement: only a str has the method.
LowerMethod(v) ==
    IF v.t = "str" THEN Return(PyStr(Lower(v.s)))
    ELSE Raise("AttributeError",
               \* text: ' object has no attribute 'lower'
               <<"'">> \o TypeName(v) \o <<"'", " ", "o", "b", "j", "e", "c",
                   "t", " ", "h", "a", "s", " ", "n", "o", " ", "a", "t", "t",
                   "r", "i", "b", "u", "t", "e", " ", "'", "l", "o", "w", "e",
                   "r", "'">>)

\* isinstance(args, dict)
IsDict(v) == v.t = "dict"

\* raise TypeError("args must be a dict")
\* text: args must be a dict
ArgsTypeError == Raise("TypeError", <<"a", "r", "g", "s", " ", "m", "u", "s",
    "t", " ", "b", "e", " ", "a", " ", "d", "i", "c", "t">>)

\* How a call of run ends, and the registry function it applied on the way
\* ("none" when it did not get that far).
Ran(outcome, fn) == [outcome |-> outcome, applied |-> fn]

\* run(args): the set of ways the call can end.
run(args) ==
    IF ~IsDict(args) THEN {Ran(ArgsTypeError, "none")}
    ELSE LET text == DictGet(args, KeyText, PyStr(<<>>))
             lowered == LowerMethod(DictGet(args, KeyTransform, PyStr(<<>>)))
         IN  IF lowered.kind = "raise" THEN {Ran(lowered, "none")}
             ELSE LET transform == lowered.val.s
                  IN  IF ~InTransforms(transform)
                      THEN {Ran(Return(ResultDict(FALSE, PyStr(<<>>),
                                       PyStr(UnknownTransformMessage(transform)))),
                                "none")}
                      ELSE {Ran(IF o.kind = "raise" THEN o
                                ELSE Return(ResultDict(TRUE, o.val, PyNone)),
                                TransformFn(transform)) :
                              o \in CallTransform(TransformFn(transform), text)}

(***************************************************************************)
(* JSON text.  A token is punctuation, a string as written (units), a      *)
(* number literal, one of true / false / null, or something no JSON value  *)
(* starts with.  An integer literal is a digit repeated ndigits times; a   *)
(* float literal is named by its spelling, which covers the NaN, Infinity  *)
(* and -Infinity that Python's json reads and writes.                      *)
(***************************************************************************)
LitUnit(c) == [esc |-> FALSE, cp |-> c]
EscUnit(c) == [esc |-> TRUE, cp |-> c]

PunctTok(c) == [k |-> "punct", c |-> c]
StrTok(units) == [k |-> "string", units |-> units]
IntTok(d, n) == [k |-> "int", digit |-> d, ndigits |-> n]
FloatTok(f) == [k |-> "float", f |-> f]
NameTok(name) == [k |-> "name", name |-> name]
\* A string literal whose closing quote is missing.
OpenStrTok == [k |-> "openstring"]
\* Characters that start no JSON value, like the word  not .
JunkTok == [k |-> "junk"]

IsPunct(toks, i, c) == i <= Len(toks) /\ toks[i].k = "punct" /\ toks[i].c = c

RECURSIVE DecodeFrom(_, _)
\* py_scanstring: an escaped high surrogate directly followed by an escaped
\* low surrogate is one code point; every other unit is its own code point.
DecodeFrom(units, i) ==
    IF i > Len(units) THEN <<>>
    ELSE IF /\ units[i].esc /\ units[i].cp = HighSurrogate
            /\ i < Len(units)
            /\ units[i + 1].esc /\ units[i + 1].cp = LowSurrogate
         THEN <<Astral>> \o DecodeFrom(units, i + 2)
         ELSE <<units[i].cp>> \o DecodeFrom(units, i + 1)

DecodeUnits(units) == DecodeFrom(units, 1)

RECURSIVE EncodeFrom(_, _)
\* The string encoder of json.dumps with ensure_ascii: ASCII as it is, a
\* code point above U+FFFF as a surrogate pair of escapes, the rest escaped.
EncodeFrom(s, i) ==
    IF i > Len(s) THEN <<>>
    ELSE (IF IsAscii(s[i]) THEN <<LitUnit(s[i])>>
          ELSE IF s[i] = Astral THEN <<EscUnit(HighSurrogate), EscUnit(LowSurrogate)>>
          ELSE <<EscUnit(s[i])>>) \o EncodeFrom(s, i + 1)

EncodeStr(s) == EncodeFrom(s, 1)

\* What the scanner hands back: a value and the next position, or an exception.
\* A JSONDecodeError's message is kept without its position suffix
\* (": line L column C (char N)"), which token text does not carry.
Scanned(v, next) == [st |-> "ok", val |-> v, next |-> next]
ScanError(exc, msg) == [st |-> exc, msg |-> msg]
JSONDecodeError(msg) == ScanError("JSONDecodeError", msg)

\* dict(pairs): a repeated key keeps its first place and its last value.
RECURSIVE DictOf(_, _, _)
DictOf(pairs, i, acc) ==
    IF i > Len(pairs) THEN acc
    ELSE DictOf(pairs, i + 1, DictSet(acc, pairs[i][1], pairs[i][2]))

RECURSIVE ScanOnce(_, _, _), ScanMembers(_, _, _, _), ScanItems(_, _, _, _)
\* The members of an object from position i (a key is due there).
ScanMembers(toks, i, depth, pairs) ==
    IF ~(i <= Len(toks) /\ toks[i].k = "string")
    \* text: Expecting property name enclosed in double quotes
    THEN JSONDecodeError(<<"E", "x", "p", "e", "c", "t", "i", "n", "g", " ",
        "p", "r", "o", "p", "e", "r", "t", "y", " ", "n", "a", "m", "e", " ",
        "e", "n", "c", "l", "o", "s", "e", "d", " ", "i", "n", " ", "d", "o",
        "u", "b", "l", "e", " ", "q", "u", "o", "t", "e", "s">>)
    ELSE IF ~IsPunct(toks, i + 1, ":")
    \* text: Expecting ':' delimiter
    THEN JSONDecodeError(<<"E", "x", "p", "e", "c", "t", "i", "n", "g", " ",
        "'", ":", "'", " ", "d", "e", "l", "i", "m", "i", "t", "e", "r">>)
    ELSE LET key == DecodeUnits(toks[i].units)
             v == ScanOnce(toks, i + 2, depth)
         IN  IF v.st # "ok" THEN v
             ELSE IF IsPunct(toks, v.next, "}")
             THEN Scanned(DictOf(Append(pairs, <<key, v.val>>), 1, PyDict(<<>>)),
                          v.next + 1)
             ELSE IF IsPunct(toks, v.next, ",")
             THEN ScanMembers(toks, v.next + 1, depth, Append(pairs, <<key, v.val>>))
             \* text: Expecting ',' delimiter
             ELSE JSONDecodeError(<<"E", "x", "p", "e", "c", "t", "i", "n",
                 "g", " ", "'", ",", "'", " ", "d", "e", "l", "i", "m", "i",
                 "t", "e", "r">>)

\* The items of an array from position i (a value is due there).
ScanItems(toks, i, depth, items) ==
    LET v == ScanOnce(toks, i, depth)
    IN  IF v.st # "ok" THEN v
        ELSE IF IsPunct(toks, v.next, "]")
        THEN Scanned(PyList(Append(items, v.val)), v.next + 1)
        ELSE IF IsPunct(toks, v.next, ",")
        THEN ScanItems(toks, v.next + 1, depth, Append(items, v.val))
        \* text: Expecting ',' delimiter
        ELSE JSONDecodeError(<<"E", "x", "p", "e", "c", "t", "i", "n", "g",
            " ", "'", ",", "'", " ", "d", "e", "l", "i", "m", "i", "t", "e",
            "r">>)

\* One JSON value from position i, inside depth containers.
ScanOnce(toks, i, depth) ==
    \* text: Expecting value
    IF i > Len(toks) THEN JSONDecodeError(<<"E", "x", "p", "e", "c", "t", "i",
        "n", "g", " ", "v", "a", "l", "u", "e">>)
    ELSE LET tok == toks[i] IN
      CASE tok.k = "string" -> Scanned(PyStr(DecodeUnits(tok.units)), i + 1)
        \* text: Unterminated string starting at
        [] tok.k = "openstring" -> JSONDecodeError(<<"U", "n", "t", "e", "r",
            "m", "i", "n", "a", "t", "e", "d", " ", "s", "t", "r", "i", "n",
            "g", " ", "s", "t", "a", "r", "t", "i", "n", "g", " ", "a", "t">>)
        [] tok.k = "int" ->
              IF tok.ndigits > MaxStrDigits
              THEN ScanError("ValueError",
                             \* text: Exceeds the limit (4300 digits) for integer string conversion
                             <<"E", "x", "c", "e", "e", "d", "s", " ", "t",
                                 "h", "e", " ", "l", "i", "m", "i", "t", " ",
                                 "(", "4", "3", "0", "0", " ", "d", "i", "g",
                                 "i", "t", "s", ")", " ", "f", "o", "r", " ",
                                 "i", "n", "t", "e", "g", "e", "r", " ", "s",
                                 "t", "r", "i", "n", "g", " ", "c", "o", "n",
                                 "v", "e", "r", "s", "i", "o", "n">>)
              ELSE Scanned(PyInt(tok.digit, tok.ndigits), i + 1)
        [] tok.k = "float" -> Scanned(PyFloat(tok.f), i + 1)
        [] tok.k = "name" ->
              Scanned(CASE tok.name = "true" -> PyBool(TRUE)
                        [] tok.name = "false" -> PyBool(FALSE)
                        [] tok.name = "null" -> PyNone, i + 1)
        [] IsPunct(toks, i, "{") ->
              IF depth >= RecursionLimit
              THEN ScanError("RecursionError",
                             \* text: maximum recursion depth exceeded while decoding a JSON object from a unicode string
                             <<"m", "a", "x", "i", "m", "u", "m", " ", "r",
                                 "e", "c", "u", "r", "s", "i", "o", "n", " ",
                                 "d", "e", "p", "t", "h", " ", "e", "x", "c",
                                 "e", "e", "d", "e", "d", " ", "w", "h", "i",
                                 "l", "e", " ", "d", "e", "c", "o", "d", "i",
                                 "n", "g", " ", "a", " ", "J", "S", "O", "N",
                                 " ", "o", "b", "j", "e", "c", "t", " ", "f",
                                 "r", "o", "m", " ", "a", " ", "u", "n", "i",
                                 "c", "o", "d", "e", " ", "s", "t", "r", "i",
                                 "n", "g">>)
              ELSE IF IsPunct(toks, i + 1, "}") THEN Scanned(PyDict(<<>>), i + 2)
              ELSE ScanMembers(toks, i + 1, depth + 1, <<>>)
        [] IsPunct(toks, i, "[") ->
              IF depth >= RecursionLimit
              THEN ScanError("RecursionError",
                             \* text: maximum recursion depth exceeded while decoding a JSON array from a unicode string
                             <<"m", "a", "x", "i", "m", "u", "m", " ", "r",
                                 "e", "c", "u", "r", "s", "i", "o", "n", " ",
                                 "d", "e", "p", "t", "h", " ", "e", "x", "c",
                                 "e", "e", "d", "e", "d", " ", "w", "h", "i",
                                 "l", "e", " ", "d", "e", "c", "o", "d", "i",
                                 "n", "g", " ", "a", " ", "J", "S", "O", "N",
                                 " ", "a", "r", "r", "a", "y", " ", "f", "r",
                                 "o", "m", " ", "a", " ", "u", "n", "i", "c",
                                 "o", "d", "e", " ", "s", "t", "r", "i", "n",
                                 "g">>)
              ELSE IF IsPunct(toks, i + 1, "]") THEN Scanned(PyList(<<>>), i + 2)
              ELSE ScanItems(toks, i + 1, depth + 1, <<>>)
        \* text: Expecting value
        [] OTHER -> JSONDecodeError(<<"E", "x", "p", "e", "c", "t", "i", "n",
            "g", " ", "v", "a", "l", "u", "e">>)

\* json.loads(raw): the whole text must be one value.
loads(raw) ==
    LET v == ScanOnce(raw, 1, 0)
    IN  IF v.st = "ok" /\ v.next <= Len(raw) THEN JSONDecodeError(<<"E", "x",
        "t", "r", "a", " ", "d", "a", "t", "a">>)
        ELSE v

RECURSIVE dumps(_), DumpItems(_, _), DumpPairs(_, _)
DumpItems(items, i) ==
    IF i > Len(items) THEN <<>>
    ELSE (IF i > 1 THEN <<PunctTok(",")>> ELSE <<>>)
         \o dumps(items[i]) \o DumpItems(items, i + 1)

DumpPairs(pairs, i) ==
    IF i > Len(pairs) THEN <<>>
    ELSE (IF i > 1 THEN <<PunctTok(",")>> ELSE <<>>)
         \o <<StrTok(EncodeStr(pairs[i][1])), PunctTok(":")>>
         \o dumps(pairs[i][2]) \o DumpPairs(pairs, i + 1)

\* json.dumps(obj), with its default ensure_ascii and allow_nan.
dumps(v) ==
    CASE v.t = "str" -> <<StrTok(EncodeStr(v.s))>>
      [] v.t = "int" -> <<IntTok(v.digit, v.ndigits)>>
      [] v.t = "float" -> <<FloatTok(v.f)>>
      [] v.t = "bool" -> <<NameTok(IF v.b THEN "true" ELSE "false")>>
      [] v.t = "NoneType" -> <<NameTok("null")>>
      [] v.t = "list" -> <<PunctTok("[")>> \o DumpItems(v.items, 1) \o <<PunctTok("]")>>
      [] v.t = "dict" -> <<PunctTok("{")>> \o DumpPairs(v.pairs, 1) \o <<PunctTok("}")>>

(***************************************************************************)
(* The documents a caller may put on standard input.                       *)
(***************************************************************************)
\* The units the enumerated texts are written with: cased and uncased
\* ASCII, a letter whose upper case is two letters, and the two halves of
\* a surrogate pair, which JSON text can only hold as escapes.
TextUnits ==
    {LitUnit("s"), LitUnit("S"), LitUnit(" "), LitUnit("U+00DF"),
     EscUnit(HighSurrogate), EscUnit(LowSurrogate)}

UnitSeqs(n) == UNION {[1..k -> TextUnits] : k \in 0..n}

\* A str written with every code point literal.
Quoted(s) == <<StrTok([i \in 1..Len(s) |-> LitUnit(s[i])])>>

ArrayDoc == <<PunctTok("["), StrTok(<<LitUnit("s")>>), PunctTok(","),
              IntTok("1", 1), PunctTok("]")>>
NaNArrayDoc == <<PunctTok("["), FloatTok("NaN"), PunctTok("]")>>
EmptyObjectDoc == <<PunctTok("{"), PunctTok("}")>>

\* Values of a JSON type other than string, as written.
NonStringDocs ==
    {<<IntTok("1", 1)>>, <<FloatTok("2.5")>>, <<NameTok("true")>>,
     <<NameTok("null")>>, ArrayDoc, NaNArrayDoc, EmptyObjectDoc}

TextDocs(n) == {<<StrTok(u)>> : u \in UnitSeqs(n)} \cup NonStringDocs

TransformNames ==
    {<<"u", "p", "p", "e", "r", "c", "a", "s", "e">>, <<"U", "P", "P", "E",
        "R", "C", "A", "S", "E">>, <<"U", "p", "p", "e", "r", "C", "a", "s",
        "e">>, <<"l", "o", "w", "e", "r", "c", "a", "s", "e">>, <<"L", "o",
        "w", "e", "r", "C", "a", "s", "e">>,
     <<"r", "e", "v", "e", "r", "s", "e">>, <<"R", "E", "V", "E", "R", "S",
         "E">>, <<"t", "i", "t", "l", "e">>, <<"T", "i", "t", "l",
         "e">>, <<"T", "U+0130", "T", "L", "E">>,
     <<"r", "o", "t", "1", "3">>, <<"R", "O", "T", "1", "3">>, <<"u", "p",
         "p", "e", "r">>, <<>>}

TransformDocs == {Quoted(n) : n \in TransformNames} \cup NonStringDocs

Member(key, doc) == Quoted(key) \o <<PunctTok(":")>> \o doc

ObjectDoc(members) ==
    <<PunctTok("{")>>
    \o Join(members, <<PunctTok(",")>>)
    \o <<PunctTok("}")>>

\* n opening brackets, then n closing ones.
RECURSIVE Brackets(_, _)
Brackets(c, n) == IF n = 0 THEN <<>> ELSE <<PunctTok(c)>> \o Brackets(c, n - 1)
NestedArrays(n) == Brackets("[", n) \o Brackets("]", n)

\* Requests with both keys.
FullRequests ==
    {ObjectDoc(<<Member(KeyText, t), Member(KeyTransform, x)>>) :
        t \in TextDocs(MaxLen), x \in TransformDocs}

\* Requests that omit a key, carry another one, or repeat one.
OtherRequests ==
    {ObjectDoc(<<Member(KeyTransform, x)>>) : x \in TransformDocs}
    \cup {ObjectDoc(<<Member(KeyText, t)>>) : t \in TextDocs(1)}
    \cup {ObjectDoc(<<Member(KeyTransform, x), Member(<<"e", "x", "t", "r",
        "a">>, t), Member(KeyText, t)>>) :
            t \in TextDocs(1), x \in {Quoted(<<"T", "i", "t", "l",
                "e">>), Quoted(<<"n", "o", "p", "e">>)}}
    \cup {ObjectDoc(<<Member(KeyText, Quoted(<<"s">>)), Member(KeyTransform, Quoted(<<"r",
        "o", "t", "1", "3">>)),
                      Member(KeyText, t), Member(KeyTransform, Quoted(<<"U",
                          "P", "P", "E", "R", "C", "A", "S", "E">>))>>) :
            t \in TextDocs(1)}
    \cup {EmptyObjectDoc}

\* JSON values whose root is not an object.
NonObjectRoots ==
    TextDocs(1)
    \cup {<<FloatTok("NaN")>>, <<FloatTok("Infinity")>>, <<FloatTok("-Infinity")>>,
          <<NameTok("false")>>, <<PunctTok("["), PunctTok("]")>>,
          <<IntTok("1", MaxStrDigits)>>, NestedArrays(RecursionLimit),
          <<PunctTok("[")>> \o ObjectDoc(<<Member(KeyText, Quoted(<<"s">>)),
                                           Member(KeyTransform, Quoted(<<"r",
                                               "e", "v", "e", "r", "s",
                                               "e">>))>>)
          \o <<PunctTok("]")>>}

\* Text that is no JSON document.
MalformedDocs ==
    {<<>>, <<JunkTok>>, <<JunkTok, JunkTok>>, <<OpenStrTok>>,
     <<PunctTok("{")>>, <<PunctTok("}")>>, <<PunctTok("[")>>,
     <<PunctTok("["), IntTok("1", 1), PunctTok(","), PunctTok("]")>>,
     <<PunctTok("["), IntTok("1", 1), IntTok("1", 1), PunctTok("]")>>,
     <<PunctTok("{")>> \o Quoted(KeyText) \o Quoted(<<"s">>) \o <<PunctTok("}")>>,
     <<PunctTok("{")>> \o Member(KeyText, Quoted(<<"s">>)) \o <<PunctTok(","), PunctTok("}")>>,
     <<PunctTok("{")>> \o Member(KeyText, Quoted(<<"s">>)),
     <<PunctTok("{")>> \o Member(KeyText, <<OpenStrTok>>),
     <<PunctTok("{"), IntTok("1", 1), PunctTok(":"), IntTok("1", 1), PunctTok("}")>>,
     <<PunctTok("{")>> \o Member(KeyText, Quoted(<<"s">>)) \o Quoted(KeyTransform)
        \o <<PunctTok("}")>>,
     ObjectDoc(<<Member(KeyText, Quoted(<<"s">>)), Member(KeyTransform, Quoted(<<"t",
         "i", "t", "l", "e">>))>>)
        \o <<JunkTok>>,
     ObjectDoc(<<Member(KeyText, <<JunkTok>>), Member(KeyTransform, Quoted(<<"t",
         "i", "t", "l", "e">>))>>),
     Brackets("{", RecursionLimit + 1),
     Brackets("[", RecursionLimit), Brackets("[", RecursionLimit + 1)}

\* Documents json.loads cannot hold: nested deeper than the interpreter
\* allows, or with an integer literal longer than int() accepts.
OversizedDocs ==
    {NestedArrays(RecursionLimit + 1), <<IntTok("1", MaxStrDigits + 1)>>}
    \cup {ObjectDoc(<<Member(KeyText, t), Member(KeyTransform, Quoted(<<"r",
        "e", "v", "e", "r", "s", "e">>))>>) :
            t \in {NestedArrays(RecursionLimit), NestedArrays(RecursionLimit - 1),
                   <<IntTok("1", MaxStrDigits + 1)>>}}

Inputs == FullRequests \cup OtherRequests \cup NonObjectRoots \cup MalformedDocs
          \cup OversizedDocs

(***************************************************************************)
(* main: one invocation of the process.                                    *)
(***************************************************************************)
VARIABLES
    stdin,      \* the text on standard input
    pc,         \* where main is: "read", "parse", "run", "write", "done", "crashed"
    raw,        \* main's raw
    args,       \* main's args
    result,     \* main's result
    stdout,     \* the texts written to standard output, in order
    emitted,    \* the dicts handed to json.dumps for those writes
    reads,      \* calls of sys.stdin.read
    calls,      \* calls of run
    applied,    \* the registry function run applied ("none" if it applied none)
    fault,      \* the exception that left main, if one did
    round,      \* which invocation of a chain this is
    history     \* the requests and replies of the chain's earlier invocations

vars == <<stdin, pc, raw, args, result, stdout, emitted, reads, calls, applied,
          fault, round, history>>

\* A local that is not bound yet.
Unbound == [t |-> "unbound"]

Init ==
    /\ stdin \in Inputs
    /\ pc = "read"
    /\ raw = <<>>
    /\ args = Unbound
    /\ result = Unbound
    /\ stdout = <<>>
    /\ emitted = <<>>
    /\ reads = 0
    /\ calls = 0
    /\ applied = "none"
    /\ fault = "none"
    /\ round = 1
    /\ history = <<>>

\* raw = sys.stdin.read()
Read ==
    /\ pc = "read"
    /\ raw' = stdin
    /\ reads' = reads + 1
    /\ pc' = "parse"
    /\ UNCHANGED <<stdin, args, result, stdout, emitted, calls, applied, fault, round, history>>

\* args = json.loads(raw), when it returns
ParseReturns ==
    /\ pc = "parse"
    /\ loads(raw).st = "ok"
    /\ args' = loads(raw).val
    /\ pc' = "run"
    /\ UNCHANGED <<stdin, raw, result, stdout, emitted, reads, calls, applied, fault, round, history>>

\* The dict of the except json.JSONDecodeError branch.
InvalidJSONResult(msg) ==
    \* text: invalid JSON: 
    ResultDict(FALSE, PyStr(<<>>), PyStr(<<"i", "n", "v", "a", "l", "i", "d",
        " ", "J", "S", "O", "N", ":", " ">> \o msg))

\* except json.JSONDecodeError: write the result, flush, return
ParseDecodeError ==
    /\ pc = "parse"
    /\ loads(raw).st = "JSONDecodeError"
    /\ stdout' = Append(stdout, dumps(InvalidJSONResult(loads(raw).msg)))
    /\ emitted' = Append(emitted, InvalidJSONResult(loads(raw).msg))
    /\ pc' = "done"
    /\ UNCHANGED <<stdin, raw, args, result, reads, calls, applied, fault, round, history>>

\* json.loads raises something the except clause does not name: the
\* exception leaves main and the interpreter ends with a traceback.
ParseRaisesOther ==
    /\ pc = "parse"
    /\ loads(raw).st \notin {"ok", "JSONDecodeError"}
    /\ fault' = loads(raw).st
    /\ pc' = "crashed"
    /\ UNCHANGED <<stdin, raw, args, result, stdout, emitted, reads, calls, applied, round, history>>

\* The message put in output instead of error.
ErrorResultInOutput(msg) == ResultDict(FALSE, PyStr(msg), PyNone)

\* The dict of the except Exception branch.
ErrorResult(msg) == ResultDict(FALSE, PyStr(<<>>), PyStr(msg))

\* result = run(args), when it returns
RunReturns ==
    /\ pc = "run"
    /\ \E r \in run(args) :
          /\ r.outcome.kind = "return"
          /\ result' = r.outcome.val
          /\ applied' = r.applied
    /\ calls' = calls + 1
    /\ pc' = "write"
    /\ UNCHANGED <<stdin, raw, args, stdout, emitted, reads, fault, round, history>>

\* except Exception as exc: result = {..., "error": str(exc)}
RunRaises ==
    /\ pc = "run"
    /\ \E r \in run(args) :
          /\ r.outcome.kind = "raise"
          /\ result' = ErrorResult(r.outcome.msg)
          /\ applied' = r.applied
    /\ calls' = calls + 1
    /\ pc' = "write"
    /\ UNCHANGED <<stdin, raw, args, stdout, emitted, reads, fault, round, history>>

\* sys.stdout.write(json.dumps(result)); sys.stdout.flush()
Write ==
    /\ pc = "write"
    /\ stdout' = Append(stdout, dumps(result))
    /\ emitted' = Append(emitted, result)
    /\ pc' = "done"
    /\ UNCHANGED <<stdin, raw, args, result, reads, calls, applied, fault, round, history>>

Next ==
    \/ Read
    \/ ParseReturns
    \/ ParseDecodeError
    \/ ParseRaisesOther
    \/ RunReturns
    \/ RunRaises
    \/ Write

Spec == Init /\ [][Next]_vars


(***************************************************************************)
(* A caller that chains invocations: it reads the reply of a successful    *)
(* invocation and starts the next one with that output as the text and     *)
(* the same transform.                                                     *)
(***************************************************************************)
\* The caller's reading of what the process wrote.
Reply == loads(stdout[1])

Feed ==
    /\ pc = "done"
    /\ round < MaxRounds
    /\ IsDict(args)
    /\ Len(stdout) = 1
    /\ Reply.st = "ok"
    /\ DictGet(Reply.val, KeySuccess, PyNone).t = "bool"
    /\ DictGet(Reply.val, KeySuccess, PyNone).b
    /\ LET output == DictGet(Reply.val, KeyOutput, PyNone)
           transform == DictGet(args, KeyTransform, PyStr(<<>>))
       IN  /\ stdin' = dumps(PyDict(<< <<KeyText, output>>, <<KeyTransform, transform>> >>))
           /\ history' = Append(history,
                                [text |-> DictGet(args, KeyText, PyStr(<<>>)),
                                 transform |-> transform,
                                 output |-> output])
    /\ round' = round + 1
    /\ pc' = "read"
    /\ raw' = <<>>
    /\ args' = Unbound
    /\ result' = Unbound
    /\ stdout' = <<>>
    /\ emitted' = <<>>
    /\ reads' = 0
    /\ calls' = 0
    /\ applied' = "none"
    /\ UNCHANGED fault

NextChain == Next \/ Feed

SpecChain == Init /\ [][NextChain]_vars

(***************************************************************************)
(* What the claims are stated with.                                        *)
(***************************************************************************)
Uppercase == <<"u", "p", "p", "e", "r", "c", "a", "s", "e">>
Lowercase == <<"l", "o", "w", "e", "r", "c", "a", "s", "e">>
ReverseName == <<"r", "e", "v", "e", "r", "s", "e">>
TitleName == <<"t", "i", "t", "l", "e">>
RegisteredNames == {Uppercase, Lowercase, ReverseName, TitleName}

\* The request's entries as run sees them.
TextValue == DictGet(args, KeyText, PyStr(<<>>))
TransformValue == DictGet(args, KeyTransform, PyStr(<<>>))

\* main is through with a request object whose transform is a str.
DoneWithNamedRequest == pc = "done" /\ IsDict(args) /\ TransformValue.t = "str"

\* f_t(s) for a registered name t.
Expected(t, s) ==
    CASE t = Uppercase -> Upper(s)
      [] t = Lowercase -> Lower(s)
      [] t = ReverseName -> Reverse(s)
      [] t = TitleName -> Title(s)

Success(output) == ResultDict(TRUE, output, PyNone)
Failure(message) == ResultDict(FALSE, PyStr(<<>>), PyStr(message))

\* The messages the claims name, spelled out.
\* text: args must be a dict
ArgsMustBeDict == <<"a", "r", "g", "s", " ", "m", "u", "s", "t", " ", "b",
    "e", " ", "a", " ", "d", "i", "c", "t">>
\* text: invalid JSON: 
InvalidJSONPrefix == <<"i", "n", "v", "a", "l", "i", "d", " ", "J", "S", "O",
    "N", ":", " ">>
UnknownTransformOf(name) ==
    \* text: unknown transform '
    <<"u", "n", "k", "n", "o", "w", "n", " ", "t", "r", "a", "n", "s", "f",
        "o", "r", "m", " ", "'">> \o name
    \* text: ' <U+2014> use: uppercase, lowercase, reverse, title
    \o <<"'", " ", "U+2014", " ", "u", "s", "e", ":", " ", "u", "p", "p", "e",
        "r", "c", "a", "s", "e", ",", " ", "l", "o", "w", "e", "r", "c", "a",
        "s", "e", ",", " ", "r", "e", "v", "e", "r", "s", "e", ",", " ", "t",
        "i", "t", "l", "e">>
NoLowerAttribute(typeName) ==
    \* text: ' object has no attribute 'lower'
    <<"'">> \o typeName \o <<"'", " ", "o", "b", "j", "e", "c", "t", " ", "h",
        "a", "s", " ", "n", "o", " ", "a", "t", "t", "r", "i", "b", "u", "t",
        "e", " ", "'", "l", "o", "w", "e", "r", "'">>
UpperDescriptorOnInt ==
    \* text: descriptor 'upper' for 'str' objects doesn't apply to a 'int' object
    <<"d", "e", "s", "c", "r", "i", "p", "t", "o", "r", " ", "'", "u", "p",
        "p", "e", "r", "'", " ", "f", "o", "r", " ", "'", "s", "t", "r", "'",
        " ", "o", "b", "j", "e", "c", "t", "s", " ", "d", "o", "e", "s", "n",
        "'", "t", " ", "a", "p", "p", "l", "y", " ", "t", "o", " ", "a", " ",
        "'", "i", "n", "t", "'", " ", "o", "b", "j", "e", "c", "t">>

\* The one write is the serialization of the one emitted Result.
WroteEmitted == Len(emitted) = 1 /\ stdout = <<dumps(emitted[1])>>

\* C1: a request with a string text s and a registered transform name t
\* makes main emit exactly {success: true, output: f_t(s), error: null}.
C1_RegisteredTransformApplied ==
    (DoneWithNamedRequest /\ TransformValue.s \in RegisteredNames /\ TextValue.t = "str")
    => /\ emitted = <<Success(PyStr(Expected(TransformValue.s, TextValue.s)))>>
       /\ WroteEmitted
       /\ TransformValue.s = ReverseName =>
             LET out == emitted[1].pairs[2][2].s
             IN  /\ Len(out) = Len(TextValue.s)
                 /\ \A i \in 1..Len(out) : out[i] = TextValue.s[Len(out) + 1 - i]

C1_Witness ==
    /\ pc = "done"
    /\ IsDict(args)
    /\ TransformValue = PyStr(TitleName)
    /\ TextValue = PyStr(<<"s", " ", "U+00DF">>)
    /\ emitted = <<Success(PyStr(<<"S", " ", "S", "s">>))>>

FieldOf(r, key) == DictGet(r, key, Unbound)

WellFormedResult(r) ==
    /\ r.t = "dict"
    /\ Len(r.pairs) = 3
    /\ {r.pairs[i][1] : i \in 1..3} = {KeySuccess, KeyOutput, KeyError}
    /\ FieldOf(r, KeySuccess).t = "bool"
    /\ FieldOf(r, KeyOutput).t = "str"
    /\ FieldOf(r, KeyError).t \in {"str", "NoneType"}
    /\ FieldOf(r, KeySuccess).b => FieldOf(r, KeyError).t = "NoneType"
    /\ ~FieldOf(r, KeySuccess).b =>
          FieldOf(r, KeyOutput).s = <<>> /\ FieldOf(r, KeyError).t = "str"

\* C2: every Result the program emits has exactly the entries success (a
\* boolean), output (a string, empty on failure) and error (null on
\* success, a string on failure).
C2_EveryResultWellFormed ==
    \A i \in 1..Len(emitted) : WellFormedResult(emitted[i])

\* C3: every invocation ends in Done after exactly one read and exactly
\* one write, and no exception leaves main.
C3_OneReadOneWriteNoFault ==
    pc \in {"done", "crashed"}
    => pc = "done" /\ fault = "none" /\ reads = 1 /\ Len(stdout) = 1

RECURSIVE RfcValue(_, _), RfcMembers(_, _), RfcElements(_, _)
\* The grammar of RFC 8259: the position after the value that starts at i,
\* or 0 when none starts there.
RfcValue(toks, i) ==
    IF i > Len(toks) THEN 0
    ELSE CASE toks[i].k \in {"string", "int", "name"} -> i + 1
           [] toks[i].k = "float" ->
                 IF toks[i].f \in {"NaN", "Infinity", "-Infinity"} THEN 0 ELSE i + 1
           [] IsPunct(toks, i, "{") ->
                 IF IsPunct(toks, i + 1, "}") THEN i + 2 ELSE RfcMembers(toks, i + 1)
           [] IsPunct(toks, i, "[") ->
                 IF IsPunct(toks, i + 1, "]") THEN i + 2 ELSE RfcElements(toks, i + 1)
           [] OTHER -> 0

RfcMembers(toks, i) ==
    IF ~(i <= Len(toks) /\ toks[i].k = "string" /\ IsPunct(toks, i + 1, ":")) THEN 0
    ELSE LET n == RfcValue(toks, i + 2)
         IN  IF n = 0 THEN 0
             ELSE IF IsPunct(toks, n, "}") THEN n + 1
             ELSE IF IsPunct(toks, n, ",") THEN RfcMembers(toks, n + 1)
             ELSE 0

RfcElements(toks, i) ==
    LET n == RfcValue(toks, i)
    IN  IF n = 0 THEN 0
        ELSE IF IsPunct(toks, n, "]") THEN n + 1
        ELSE IF IsPunct(toks, n, ",") THEN RfcElements(toks, n + 1)
        ELSE 0

ValidJSON(toks) == RfcValue(toks, 1) = Len(toks) + 1

\* C4: when standard input is not a valid JSON document, run is never
\* called and the only output is the "invalid JSON: ..." Result.
C4_InvalidJSONShortCircuits ==
    (pc = "done" /\ ~ValidJSON(stdin))
    => /\ calls = 0
       /\ applied = "none"
       /\ loads(stdin).st = "JSONDecodeError"
       /\ emitted = <<Failure(InvalidJSONPrefix \o loads(stdin).msg)>>
       /\ WroteEmitted

\* C5: when the input parses and its root is not an object, the Result is
\* exactly {success: false, output: "", error: "args must be a dict"} and
\* no transform is applied.
C5_NonObjectRootRejected ==
    (pc = "done" /\ args.t \notin {"unbound", "dict"})
    => /\ emitted = <<Failure(ArgsMustBeDict)>>
       /\ WroteEmitted
       /\ applied = "none"

C5_Witness ==
    /\ pc = "done"
    /\ args.t = "list"
    /\ emitted = <<Failure(ArgsMustBeDict)>>

\* C6: a transform string that lower-cases to no registered name (omitted
\* and empty included), with any string text, gives the unknown-transform
\* Result naming the lower-cased value and the four names in registration
\* order; the text is not transformed.
C6_UnknownTransformReported ==
    (DoneWithNamedRequest /\ Lower(TransformValue.s) \notin RegisteredNames
        /\ TextValue.t = "str")
    => /\ emitted = <<Failure(UnknownTransformOf(Lower(TransformValue.s)))>>
       /\ WroteEmitted
       /\ applied = "none"

C6_Witness ==
    /\ pc = "done"
    /\ IsDict(args)
    /\ TransformValue = PyStr(<<"R", "O", "T", "1", "3">>)
    /\ TextValue.t = "str"
    /\ emitted = <<Failure(UnknownTransformOf(<<"r", "o", "t", "1", "3">>))>>

\* What main makes of one way run can end.
ResultOfRun(r) ==
    IF r.outcome.kind = "return" THEN r.outcome.val ELSE ErrorResult(r.outcome.msg)

\* C7: two transform strings that are equal after lower-casing give
\* identical Results for the same request otherwise.
C7_NameMatchingIgnoresCase ==
    DoneWithNamedRequest
    => \A other \in TransformNames :
          Lower(other) = Lower(TransformValue.s)
          => /\ WroteEmitted
             /\ emitted[1] \in {ResultOfRun(r) :
                                  r \in run(DictSet(args, KeyTransform, PyStr(other)))}
             /\ {ResultOfRun(r) : r \in run(args)}
                = {ResultOfRun(r) : r \in run(DictSet(args, KeyTransform, PyStr(other)))}

C7_Witness ==
    /\ pc = "done"
    /\ IsDict(args)
    /\ TransformValue = PyStr(<<"U", "p", "p", "e", "r", "C", "a", "s", "e">>)
    /\ TextValue = PyStr(<<"s", "U+00DF">>)
    /\ emitted = <<Success(PyStr(<<"S", "S", "S">>))>>

\* main is through with a request object whose transform is registered.
DoneWithRegisteredRequest ==
    DoneWithNamedRequest /\ Lower(TransformValue.s) \in RegisteredNames

IsFailure(r) ==
    /\ FieldOf(r, KeySuccess) = PyBool(FALSE)
    /\ FieldOf(r, KeyOutput) = PyStr(<<>>)
    /\ FieldOf(r, KeyError).t = "str"
    /\ FieldOf(r, KeyError).s # <<>>

ReadOutput == DictGet(Reply.val, KeyOutput, PyNone)

\* The second invocation of a chain that started from a string text is done.
SecondDone ==
    /\ round = 2
    /\ pc = "done"
    /\ Len(history) = 1
    /\ history[1].text.t = "str"
    /\ history[1].transform.t = "str"

\* C9: reverse fed its own output returns the original text, and
\* uppercase and lowercase fed their own output return it unchanged.
C9_RepeatedTransform ==
    SecondDone
    => /\ Lower(history[1].transform.s) = ReverseName
          => ReadOutput = history[1].text
       /\ Lower(history[1].transform.s) \in {Uppercase, Lowercase}
          => ReadOutput = history[1].output

\* The half of C9 about uppercase and lowercase alone.
UpperLowerIdempotent ==
    (SecondDone /\ Lower(history[1].transform.s) \in {Uppercase, Lowercase})
    => ReadOutput = history[1].output

\* C10: a transform key holding a non-string fails in .lower() before any
\* lookup; main's catch-all emits the one failure Result with the
\* stringified error, not the unknown-transform Result, and no transform
\* runs.
C10_NonStringTransformCaught ==
    (pc = "done" /\ IsDict(args) /\ HasKey(args, KeyTransform) /\ TransformValue.t # "str")
    => /\ emitted = <<Failure(NoLowerAttribute(TypeName(TransformValue)))>>
       /\ WroteEmitted
       /\ emitted[1] # Failure(UnknownTransformOf(<<>>))
       /\ applied = "none"
       /\ calls = 1

C10_Witness ==
    /\ pc = "done"
    /\ IsDict(args)
    /\ HasKey(args, KeyTransform)
    /\ TransformValue = PyNone
    /\ emitted = <<Failure(NoLowerAttribute(<<"N", "o", "n", "e", "T", "y",
        "p", "e">>))>>
=============================================================================
